---- MODULE Spec2Model ----
(***************************************************************************)
(* State-machine model of src/castv2-sender.js: the CastV2ConnectionNode   *)
(* (connection manager) and the CastV2SenderNode (sender client).          *)
(*                                                                         *)
(* JavaScript runs one callback at a time; every action below is one       *)
(* callback (an API call, a timer, a transport event, a promise            *)
(* continuation) run to completion, including the microtasks it queues     *)
(* that need no further input from the transport.                          *)
(*                                                                         *)
(* The transport (castv2-client) is the environment.  Its contract here:   *)
(*  - a handle's connect promise resolves at most once, at any time after  *)
(*    the attempt started (the code cannot cancel it);                     *)
(*  - a handle emits "error" and "close" at most once to the once()        *)
(*    listeners, at any time after creation;                               *)
(*  - a call on a null handle is a TypeError at once; a request on a       *)
(*    handle that is not connected fails at once;                          *)
(*  - a request on a connected handle is answered later, with a result or  *)
(*    a failure.                                                           *)
(***************************************************************************)
EXTENDS Integers, Sequences, FiniteSets, TLC

\* ---------------------------------------------------------------- bounds
MaxClients == 2     \* handles made by new Client()
MaxTimers == 2      \* timers made by setTimeout
MaxReceivers == 2   \* session handles made by join and launch
MaxApps == 2        \* sessions listed in one device snapshot
MaxMask == 3        \* largest supportedMediaCommands bitmask

\* ------------------------------------------------------------- constants
Senders == {"s1", "s2"}

DefaultMediaReceiver == [APP_ID |-> "CC1AD845"]
YouTubeReceiver == [APP_ID |-> "233637DE"]
OtherApp == [APP_ID |-> "E8C28D3C"]
NullApp == [APP_ID |-> "null"]

supportedApplications == << DefaultMediaReceiver, YouTubeReceiver >>

NoClient == 0
NoTimer == 0
NoReceiver == 0
NullStatus == [isNull |-> TRUE]

\* Sessions a device snapshot can list: application identifier and token.
Sessions ==
  { [appId |-> DefaultMediaReceiver.APP_ID, sessionId |-> 1],
    [appId |-> YouTubeReceiver.APP_ID, sessionId |-> 2],
    [appId |-> OtherApp.APP_ID, sessionId |-> 3] }

\* Token of a session the device starts on launch: none of the listed ones.
LaunchedSessionId == Cardinality(Sessions) + 1

SeqsUpTo(S, n) == UNION { [1..k -> S] : k \in 0..n }

\* Device status snapshots: with no session list, or with a list.
Snapshots ==
  { [isNull |-> FALSE, hasApps |-> FALSE, applications |-> << >>] } \cup
  { [isNull |-> FALSE, hasApps |-> TRUE, applications |-> a] :
      a \in SeqsUpTo(Sessions, MaxApps) }

\* The snapshots the device reports in the runs: no session, or one session
\* of the default media receiver.
ObservedSnapshots ==
  { [isNull |-> FALSE, hasApps |-> TRUE, applications |-> a] :
      a \in { << >>, << [appId |-> DefaultMediaReceiver.APP_ID, sessionId |-> 1] >> } }

Clients == 1..MaxClients
Timers == 1..MaxTimers
Receivers == 1..MaxReceivers

VARIABLES
  connected, connecting, closing,   \* connection state flags
  registeredNodes,                  \* ids of the registered senders
  platformStatus,                   \* last device snapshot or NullStatus
  client,                           \* handle held by the manager or NoClient
  reconnectTimeOut,                 \* timer the manager remembers or NoTimer
  timers, timersCreated,            \* outstanding setTimeout timers
  clientsCreated,                   \* handles made by new Client()
  transport,                        \* per handle: promises, listeners, calls
  adapter, receiver,                \* per sender: attachment
  nodeStatus,                       \* per sender: last status() text
  lifecycle,                        \* per sender: "new", "open", "closed"
  pendingJoins,                     \* joinAsync promises not yet settled
  receivers, receiversCreated,      \* session handles given to initReceiver
  cmd                               \* the input message being handled

vars == << connected, connecting, closing, registeredNodes, platformStatus,
           client, reconnectTimeOut, timers, timersCreated, clientsCreated,
           transport, adapter, receiver, nodeStatus, lifecycle, pendingJoins,
           receivers, receiversCreated, cmd >>

\* The whole state as one record, so that the handlers compose as functions.
Cur ==
  [ connected |-> connected, connecting |-> connecting, closing |-> closing,
    registeredNodes |-> registeredNodes, platformStatus |-> platformStatus,
    client |-> client, reconnectTimeOut |-> reconnectTimeOut,
    timers |-> timers, timersCreated |-> timersCreated,
    clientsCreated |-> clientsCreated, transport |-> transport,
    adapter |-> adapter, receiver |-> receiver, nodeStatus |-> nodeStatus,
    lifecycle |-> lifecycle, pendingJoins |-> pendingJoins,
    receivers |-> receivers, receiversCreated |-> receiversCreated,
    cmd |-> cmd ]

Commit(m) ==
  /\ connected' = m.connected
  /\ connecting' = m.connecting
  /\ closing' = m.closing
  /\ registeredNodes' = m.registeredNodes
  /\ platformStatus' = m.platformStatus
  /\ client' = m.client
  /\ reconnectTimeOut' = m.reconnectTimeOut
  /\ timers' = m.timers
  /\ timersCreated' = m.timersCreated
  /\ clientsCreated' = m.clientsCreated
  /\ transport' = m.transport
  /\ adapter' = m.adapter
  /\ receiver' = m.receiver
  /\ nodeStatus' = m.nodeStatus
  /\ lifecycle' = m.lifecycle
  /\ pendingJoins' = m.pendingJoins
  /\ receivers' = m.receivers
  /\ receiversCreated' = m.receiversCreated
  /\ cmd' = m.cmd

\* A session handle nobody has made yet.
NoSession == [node |-> "s1", session |-> 0, app |-> "null", via |-> "none",
              armed |-> FALSE]

\* An input message: JavaScript's undefined is the empty tuple.
NoCommand == [type |-> "none", app |-> "absent", volume |-> << >>, time |-> << >>]

\* The message being handled: where its promise chain stands (pc), the handle
\* or session its request in flight is on, the applications it asked the
\* manager to launch, the transport and session calls made for it, the media
\* status the session reported for it (<< -1 >> before any, << >> for null),
\* and its completion signal.
NoCmd == [node |-> "s1", command |-> NoCommand, pc |-> "idle", on |-> 0,
          launches |-> << >>, calls |-> << >>, media |-> << -1 >>,
          result |-> "none"]

\* A handle nobody has made yet.
FreshHandle ==
  [ connectPending |-> FALSE,  \* connectAsync promise not yet resolved
    up |-> FALSE,              \* the transport's connect callback has run
    statusQuery |-> 0,         \* handle its then-chain's getStatusAsync awaits
    errorArmed |-> FALSE,      \* once("error") listener not yet used
    closeArmed |-> FALSE,      \* once("close") listener not yet used
    closeCalls |-> 0 ]         \* calls of close()

\* The handle answers requests: connected and neither closed nor lost.
Usable(m, h) ==
  /\ h # NoClient
  /\ m.transport[h].up
  /\ m.transport[h].closeCalls = 0
  /\ m.transport[h].closeArmed

Init ==
  /\ connected = FALSE
  /\ connecting = FALSE
  /\ closing = FALSE
  /\ registeredNodes = {}
  /\ platformStatus = NullStatus
  /\ client = NoClient
  /\ reconnectTimeOut = NoTimer
  /\ timers = {}
  /\ timersCreated = 0
  /\ clientsCreated = 0
  /\ transport = [h \in Clients |-> FreshHandle]
  /\ adapter = [s \in Senders |-> "null"]
  /\ receiver = [s \in Senders |-> NoReceiver]
  /\ nodeStatus = [s \in Senders |-> "none"]
  /\ lifecycle = [s \in Senders |-> "new"]
  /\ pendingJoins = {}
  /\ receivers = [r \in Receivers |-> NoSession]
  /\ receiversCreated = 0
  /\ cmd = NoCmd

\* ------------------------------------------------- connection manager

WithinBounds(m) ==
  /\ m.clientsCreated <= MaxClients
  /\ m.timersCreated <= MaxTimers
  /\ m.receiversCreated <= MaxReceivers

\* node.status(...) of one sender.
status(m, id, text) == [m EXCEPT !.nodeStatus[id] = text]

setStatusOfRegisteredNodes(m, text) ==
  [m EXCEPT !.nodeStatus =
     [id \in Senders |-> IF id \in m.registeredNodes THEN text ELSE @[id]]]

\* An unjoin that clears the adapter and leaves the session handle.
unjoin_adapterOnly(m, ids) ==
  [m EXCEPT
     !.adapter = [id \in Senders |-> IF id \in ids THEN "null" ELSE @[id]],
     !.nodeStatus = [id \in Senders |-> IF id \in ids THEN "connected" ELSE @[id]]]

\* CastV2SenderNode.unjoin, run for every sender of the set ids.
unjoin(m, ids) ==
  [m EXCEPT
     !.adapter = [id \in Senders |-> IF id \in ids THEN "null" ELSE @[id]],
     !.receiver = [id \in Senders |-> IF id \in ids THEN NoReceiver ELSE @[id]],
     !.nodeStatus = [id \in Senders |-> IF id \in ids THEN "connected" ELSE @[id]]]

\* node.client.close() inside the try of disconnect: the call is counted
\* when there is a handle to call it on; what it throws is swallowed.
closeClient(m) ==
  IF (m.connected \/ m.connecting) /\ m.client # NoClient
    THEN [m EXCEPT !.transport[m.client].closeCalls = @ + 1]
    ELSE m

disconnect(m) ==
  LET m1 == closeClient(m)
      m2 == [m1 EXCEPT !.client = NoClient,
                       !.platformStatus = NullStatus,
                       !.connected = FALSE,
                       !.connecting = FALSE]
      m3 == unjoin(m2, m2.registeredNodes)
  IN  setStatusOfRegisteredNodes(m3, "disconnected")

reconnect(m) ==
  LET m1 == [m EXCEPT !.connected = FALSE, !.connecting = FALSE]
      t == m1.timersCreated + 1
  IN  IF ~m1.closing /\ Cardinality(m1.registeredNodes) > 0
        THEN [m1 EXCEPT !.timers = (@ \ {m1.reconnectTimeOut}) \cup {t},
                        !.timersCreated = t,
                        !.reconnectTimeOut = t]
        ELSE m1

connect(m) ==
  IF ~m.connected /\ ~m.connecting
    THEN LET h == m.clientsCreated + 1
             m1 == [m EXCEPT
                      !.reconnectTimeOut = NoTimer,
                      !.connecting = TRUE,
                      !.client = h,
                      !.clientsCreated = h,
                      !.transport =
                        [k \in Clients |->
                           IF k = h
                             THEN [connectPending |-> TRUE, up |-> FALSE,
                                   statusQuery |-> 0, errorArmed |-> TRUE,
                                   closeArmed |-> TRUE, closeCalls |-> 0]
                             ELSE @[k]]]
         IN  setStatusOfRegisteredNodes(m1, "connecting")
    ELSE m

\* A find that keeps the last matching session instead of the first.
FindSessionIndex_last(apps, supported) ==
  LET hits == { i \in 1..Len(apps) :
                  \E j \in 1..Len(supported) : supported[j].APP_ID = apps[i].appId }
  IN  IF hits = {} THEN 0 ELSE CHOOSE i \in hits : \A k \in hits : i >= k

\* Array.prototype.find over the snapshot's sessions: the first session
\* whose appId is the APP_ID of some supported application; 0 when none.
FindSessionIndex(apps, supported) ==
  LET hits == { i \in 1..Len(apps) :
                  \E j \in 1..Len(supported) : supported[j].APP_ID = apps[i].appId }
  IN  IF hits = {} THEN 0 ELSE CHOOSE i \in hits : \A k \in hits : i <= k

\* Array.prototype.find over the supported applications; 0 when none.
FindAppIndex(supported, session) ==
  LET hits == { j \in 1..Len(supported) : supported[j].APP_ID = session.appId }
  IN  IF hits = {} THEN 0 ELSE CHOOSE j \in hits : \A k \in hits : j <= k

\* What joinNodes decides for one sender: join(session, app) or unjoin.
JoinDecision(snapshot, supported) ==
  LET i == IF snapshot.hasApps
             THEN FindSessionIndex(snapshot.applications, supported) ELSE 0
      j == IF i = 0 THEN 0 ELSE FindAppIndex(supported, snapshot.applications[i])
  IN  IF i # 0 /\ j # 0
        THEN [op |-> "join", session |-> snapshot.applications[i],
              app |-> supported[j]]
        ELSE [op |-> "unjoin"]

\* CastV2SenderNode.join for every sender of ids: joinSessionAsync asks the
\* held handle; the promise stays pending when the handle can answer.
join(m, ids) ==
  IF m.connected /\ Usable(m, m.client)
    THEN [m EXCEPT !.pendingJoins = @ \cup
            { [node |-> id,
               session |-> JoinDecision(m.platformStatus, supportedApplications).session,
               app |-> JoinDecision(m.platformStatus, supportedApplications).app]
              : id \in ids }]
    ELSE m

\* joinNodes past its guard: every registered sender is joined or unjoined.
joinNodes(m) ==
  IF JoinDecision(m.platformStatus, supportedApplications).op = "join"
    THEN join(m, m.registeredNodes)
    ELSE unjoin(m, m.registeredNodes)

\* joinNodes throws "Not connected" at this guard.
joinNodesThrows(m) == ~m.connected \/ m.platformStatus.isNull

\* The catch of connect's promise chain.
chainCatch(m) == reconnect(disconnect(m))

\* A first then whose status query is left pending whatever handle is held.
onConnected_queryPending(m, h) ==
  LET m1 == [m EXCEPT !.connected = TRUE, !.connecting = FALSE]
      m2 == setStatusOfRegisteredNodes(m1, "connected")
  IN  [m2 EXCEPT !.transport[h].statusQuery = m2.client]

\* First then of the chain: flags, broadcast, node.client.getStatusAsync().
onConnected(m, h) ==
  LET m1 == [m EXCEPT !.connected = TRUE, !.connecting = FALSE]
      m2 == setStatusOfRegisteredNodes(m1, "connected")
  IN  IF Usable(m2, m2.client)
        THEN [m2 EXCEPT !.transport[h].statusQuery = m2.client]
        ELSE chainCatch(m2)

\* Second then of the chain.
onStatus(m, snapshot) ==
  LET m1 == [m EXCEPT !.platformStatus = snapshot]
  IN  IF joinNodesThrows(m1) THEN chainCatch(m1) ELSE joinNodes(m1)

\* client.on("status"): a throw of joinNodes leaves the handler.
statusHandler(m, snapshot) ==
  LET m1 == [m EXCEPT !.platformStatus = snapshot]
  IN  IF joinNodesThrows(m1) THEN m1 ELSE joinNodes(m1)

\* client.once("error") and client.client.once("close").
lostHandler(m) == reconnect(disconnect(m))

register(m, id) ==
  LET m1 == [m EXCEPT !.registeredNodes = @ \cup {id}]
  IN  IF Cardinality(m1.registeredNodes) = 1 THEN connect(m1) ELSE m1

\* deregister without the early return for a closing manager.
deregister_ignoresClosing(m, id) ==
  LET m1 == [m EXCEPT !.registeredNodes = @ \ {id}]
  IN  IF Cardinality(m1.registeredNodes) = 0 /\ (m1.connected \/ m1.connecting)
        THEN disconnect(m1)
        ELSE m1

\* deregister that disconnects only an attempt in progress.
deregister_onlyConnecting(m, id) ==
  LET m1 == [m EXCEPT !.registeredNodes = @ \ {id}]
  IN  IF m1.closing THEN m1
      ELSE IF Cardinality(m1.registeredNodes) = 0 /\ m1.connecting
        THEN disconnect(m1)
        ELSE m1

deregister(m, id) ==
  LET m1 == [m EXCEPT !.registeredNodes = @ \ {id}]
  IN  IF m1.closing THEN m1
      ELSE IF Cardinality(m1.registeredNodes) = 0 /\ (m1.connected \/ m1.connecting)
        THEN disconnect(m1)
        ELSE m1

\* CastV2ConnectionNode.on('close').
closeHandler(m) == disconnect([m EXCEPT !.closing = TRUE])

\* initReceiver: the adapter of the application and the session handle.
getAdapter(app) ==
  IF app.APP_ID = DefaultMediaReceiver.APP_ID THEN "DefaultMediaReceiverAdapter"
  ELSE IF app.APP_ID = YouTubeReceiver.APP_ID THEN "YouTubeReceiverAdapter"
  ELSE "null"

initReceiver(m, id, session, app, via) ==
  LET r == m.receiversCreated + 1
  IN  [m EXCEPT
         !.receiversCreated = r,
         !.receivers = [k \in Receivers |->
                          IF k = r THEN [node |-> id, session |-> session.sessionId,
                                         app |-> app.APP_ID, via |-> via,
                                         armed |-> TRUE]
                                   ELSE @[k]],
         !.adapter[id] = getAdapter(app),
         !.receiver[id] = r,
         !.nodeStatus[id] = "joined"]

\* ------------------------------------------------------------ actions

\* A sender node is constructed against the connection node.
Register(id) ==
  /\ lifecycle[id] = "new"
  /\ ~closing
  /\ LET m1 == status([Cur EXCEPT !.lifecycle[id] = "open"], id, "disconnected")
         m2 == register(m1, id)
         m3 == IF m2.connected THEN status(m2, id, "connected") ELSE m2
     IN  WithinBounds(m3) /\ Commit(m3)

\* A sender node is closed: deregister, then the callback detaches it.
Deregister(id) ==
  /\ lifecycle[id] = "open"
  /\ LET m1 == deregister(Cur, id)
         m2 == [m1 EXCEPT !.adapter[id] = "null", !.receiver[id] = NoReceiver,
                          !.lifecycle[id] = "closed"]
     IN  Commit(m2)

\* The connection node is closed by its owner.
OwnerClose ==
  /\ ~closing
  /\ Commit(closeHandler(Cur))

\* The setTimeout callback of reconnect.
TimerFire(t) ==
  /\ t \in timers
  /\ LET m == connect([Cur EXCEPT !.timers = @ \ {t}])
     IN  WithinBounds(m) /\ Commit(m)

\* connectAsync of handle h resolves: its socket has connected, which a
\* socket that has already emitted "close" no longer does.
ConnectResolve(h) ==
  /\ transport[h].connectPending
  /\ transport[h].closeArmed
  /\ LET m == onConnected([Cur EXCEPT !.transport[h].connectPending = FALSE,
                                      !.transport[h].up = TRUE], h)
     IN  WithinBounds(m) /\ Commit(m)

\* getStatusAsync of h's chain resolves with a snapshot.
StatusResolve(h, snapshot) ==
  /\ transport[h].statusQuery # 0
  /\ Usable(Cur, transport[h].statusQuery)
  /\ LET m == onStatus([Cur EXCEPT !.transport[h].statusQuery = 0], snapshot)
     IN  WithinBounds(m) /\ Commit(m)

\* getStatusAsync of h's chain rejects.
StatusReject(h) ==
  /\ transport[h].statusQuery # 0
  /\ LET m == chainCatch([Cur EXCEPT !.transport[h].statusQuery = 0])
     IN  WithinBounds(m) /\ Commit(m)

\* Handle h emits "status".
StatusEvent(h, snapshot) ==
  /\ Usable(Cur, h)
  /\ Commit(statusHandler(Cur, snapshot))

\* Handle h emits "error".
ErrorEvent(h) ==
  /\ transport[h].errorArmed
  /\ transport[h].closeArmed
  /\ LET m == lostHandler([Cur EXCEPT !.transport[h].errorArmed = FALSE])
     IN  WithinBounds(m) /\ Commit(m)

\* The socket of handle h emits "close".
CloseEvent(h) ==
  /\ transport[h].closeArmed
  /\ LET m == lostHandler([Cur EXCEPT !.transport[h].closeArmed = FALSE])
     IN  WithinBounds(m) /\ Commit(m)

\* A joinAsync promise resolves: initReceiver runs.
JoinResolve(j) ==
  /\ j \in pendingJoins
  /\ LET m == initReceiver([Cur EXCEPT !.pendingJoins = @ \ {j}],
                           j.node, j.session, j.app, "join")
     IN  WithinBounds(m) /\ Commit(m)

\* A joinAsync promise rejects: nothing handles it.
JoinReject(j) ==
  /\ j \in pendingJoins
  /\ Commit([Cur EXCEPT !.pendingJoins = @ \ {j}])

\* A session handle emits "close".
ReceiverClose(r) ==
  /\ receivers[r].armed
  /\ Commit(unjoin([Cur EXCEPT !.receivers[r].armed = FALSE], {receivers[r].node}))

Next ==
  \/ \E id \in Senders : Register(id)
  \/ \E id \in Senders : Deregister(id)
  \/ OwnerClose
  \/ \E t \in Timers : TimerFire(t)
  \/ \E h \in Clients : ConnectResolve(h)
  \/ \E h \in Clients, snapshot \in ObservedSnapshots : StatusResolve(h, snapshot)
  \/ \E h \in Clients : StatusReject(h)
  \/ \E h \in Clients, snapshot \in ObservedSnapshots : StatusEvent(h, snapshot)
  \/ \E h \in Clients : ErrorEvent(h)
  \/ \E h \in Clients : CloseEvent(h)
  \/ \E j \in pendingJoins : JoinResolve(j)
  \/ \E j \in pendingJoins : JoinReject(j)
  \/ \E r \in Receivers : ReceiverClose(r)

Spec == Init /\ [][Next]_vars

\* ------------------------------------------------------- commands

platformCommands == {"CLOSE", "GET_VOLUME", "GET_CAST_STATUS", "MUTE", "UNMUTE", "VOLUME"}
mediaCommands == {"GET_STATUS", "PAUSE", "PLAY", "SEEK", "STOP"}

\* JavaScript truthiness of an optional number: undefined and 0 are falsy.
Truthy(x) == Len(x) = 1 /\ x[1] # 0

\* JavaScript's (mask & bit) as a condition, bit a power of two.
BitSet(mask, bit) == (mask \div bit) % 2 = 1

NoArg == [none |-> TRUE]

\* errorHandler of the input handler: status "error", done(error).
errorHandler(m, error) ==
  [m EXCEPT !.nodeStatus[m.cmd.node] = "error",
            !.cmd.pc = "done", !.cmd.on = 0, !.cmd.result = error]

\* The then of the input handler: done().
succeed(m) == [m EXCEPT !.cmd.pc = "done", !.cmd.on = 0, !.cmd.result = "ok"]

\* A promisified method of node.client is called: a TypeError on a null
\* handle, an immediate failure on one that cannot answer, else in flight.
request(m, fn, arg, pc) ==
  IF m.client = NoClient THEN errorHandler(m, "TypeError")
  ELSE LET m1 == [m EXCEPT !.cmd.calls =
                     Append(@, [fn |-> fn, on |-> m.client, arg |-> arg])]
       IN  IF Usable(m1, m1.client)
             THEN [m1 EXCEPT !.cmd.pc = pc, !.cmd.on = m1.client]
             ELSE errorHandler(m1, "rejected")

\* A promisified method of node.receiver is called.
sessionRequest(m, fn, arg, pc) ==
  LET r == m.receiver[m.cmd.node]
  IN  IF r = NoReceiver THEN errorHandler(m, "TypeError")
      ELSE [m EXCEPT !.cmd.calls = Append(@, [fn |-> fn, on |-> r, arg |-> arg]),
                     !.cmd.pc = pc, !.cmd.on = r]

\* launchAsync without its guard.
launchAsync_unguarded(m, castV2App) ==
  request([m EXCEPT !.cmd.launches = Append(@, castV2App)],
          "client.launch", castV2App, "launch")

launchAsync(m, castV2App) ==
  LET m1 == [m EXCEPT !.cmd.launches = Append(@, castV2App)]
  IN  IF ~m1.connected THEN errorHandler(m1, "Not connected")
      ELSE request(m1, "client.launch", castV2App, "launch")

sendPlatformCommandAsync(m, command, rcv) ==
  IF ~m.connected THEN errorHandler(m, "Not connected")
  ELSE CASE command.type = "CLOSE" ->
              IF rcv # NoReceiver
                THEN request(m, "client.stop", [receiver |-> rcv], "final")
                ELSE request(m, "client.getStatus", NoArg, "final")
         [] command.type = "GET_VOLUME" -> request(m, "client.getVolume", NoArg, "thenStatus")
         [] command.type = "GET_CAST_STATUS" -> request(m, "client.getStatus", NoArg, "final")
         [] command.type = "MUTE" ->
              request(m, "client.setVolume", [muted |-> TRUE], "thenStatus")
         [] command.type = "UNMUTE" ->
              request(m, "client.setVolume", [muted |-> FALSE], "thenStatus")
         [] command.type = "VOLUME" ->
              IF Truthy(command.volume) /\ command.volume[1] >= 0
                                       /\ command.volume[1] <= 100
                THEN request(m, "client.setVolume",
                             [level |-> [num |-> command.volume[1], den |-> 100]],
                             "thenStatus")
                ELSE errorHandler(m, "Malformed command")
         [] OTHER -> errorHandler(m, "Malformed command")

getCommandApp(command) ==
  IF command.app = "DefaultMediaReceiver" THEN DefaultMediaReceiver
  ELSE IF command.app = "YouTube" THEN YouTubeReceiver
  ELSE NullApp

\* sendMediaCommandAsync up to its first await.
sendMediaCommandAsync(m, command) ==
  sessionRequest(m, "receiver.getStatus", NoArg,
                 IF command.type = "GET_STATUS" THEN "sessionFinal" ELSE "mediaStatus")

\* The then of sendMediaCommandAsync; mask is << >> for a null status.
mediaThen(m, command, mask) ==
  IF Len(mask) = 0 THEN errorHandler(m, "not playing")
  ELSE CASE command.type = "PAUSE" ->
              IF BitSet(mask[1], 1)
                THEN sessionRequest(m, "receiver.pause", NoArg, "sessionFinal")
                ELSE succeed(m)
         [] command.type = "PLAY" -> sessionRequest(m, "receiver.play", NoArg, "sessionFinal")
         [] command.type = "SEEK" ->
              IF Truthy(command.time) /\ BitSet(mask[1], 2)
                THEN sessionRequest(m, "receiver.seek", [time |-> command.time[1]], "sessionFinal")
                ELSE succeed(m)
         [] command.type = "STOP" -> sessionRequest(m, "receiver.stop", NoArg, "sessionFinal")
         [] OTHER -> errorHandler(m, "Malformed media control command")

\* sendCommandAsync up to its first await.
sendCommandAsync(m, command) ==
  LET id == m.cmd.node
  IN  IF command.type \in platformCommands
        THEN sendPlatformCommandAsync(m, command, m.receiver[id])
      ELSE IF m.receiver[id] = NoReceiver \/ m.adapter[id] = "null"
        THEN launchAsync(m, getCommandApp(command))
      ELSE IF command.type \in mediaCommands
        THEN sendMediaCommandAsync(m, command)
      ELSE sessionRequest(m, "adapter.sendAppCommand", [type |-> command.type], "sessionFinal")

\* The then of the launch that attaches and reports success at once.
launchThen_noRetry(m, command) ==
  LET castV2App == getCommandApp(command)
  IN  IF castV2App = NullApp THEN errorHandler(m, "TypeError")
      ELSE succeed(initReceiver(m, m.cmd.node,
                                [appId |-> castV2App.APP_ID,
                                 sessionId |-> LaunchedSessionId],
                                castV2App, "launch"))

\* The then of the launch in sendCommandAsync: initReceiver, then the
\* command again.  getAdapter reads APP_ID of null for an unknown app.
launchThen(m, command) ==
  LET castV2App == getCommandApp(command)
  IN  IF castV2App = NullApp THEN errorHandler(m, "TypeError")
      ELSE sendCommandAsync(
             initReceiver(m, m.cmd.node,
                          [appId |-> castV2App.APP_ID, sessionId |-> LaunchedSessionId],
                          castV2App, "launch"),
             command)

\* The input handler: the payload is defaulted, then dispatched.
inputHandler(m, id, payload) ==
  LET p1 == IF payload.type = "none"
              THEN [payload EXCEPT !.type = "GET_CAST_STATUS"] ELSE payload
      p2 == IF p1.app = "absent"
              THEN [p1 EXCEPT !.app = "DefaultMediaReceiver"] ELSE p1
      m1 == [m EXCEPT !.cmd = [node |-> id, command |-> p2, pc |-> "start",
                               on |-> 0, launches |-> << >>, calls |-> << >>,
                               media |-> << -1 >>, result |-> "none"]]
  IN  sendCommandAsync(m1, p2)

\* ---- the input messages of the runs
Volumes == { << >>, << -1 >>, << 0 >>, << 50 >>, << 100 >>, << 101 >> }
Times == { << >>, << 0 >>, << 30 >> }
Apps == { "absent", "YouTube", "Netflix" }
Masks == { << >> } \cup { << k >> : k \in 0..MaxMask }

Payloads ==
  { NoCommand } \cup
  { [NoCommand EXCEPT !.type = t] : t \in platformCommands \ {"VOLUME"} } \cup
  { [NoCommand EXCEPT !.type = "VOLUME", !.volume = v] : v \in Volumes } \cup
  { [NoCommand EXCEPT !.type = t, !.app = a] :
      t \in (mediaCommands \ {"SEEK"}) \cup {"LOAD"}, a \in Apps } \cup
  { [NoCommand EXCEPT !.type = "SEEK", !.app = a, !.time = t] :
      a \in Apps, t \in Times }

\* A message arrives at an open sender; one message is followed at a time.
Input(id, payload) ==
  /\ lifecycle[id] = "open"
  /\ cmd.pc \in {"idle", "done"}
  /\ Commit(inputHandler(Cur, id, payload))

\* A request on the transport handle is answered.
RequestResolve ==
  /\ cmd.pc \in {"thenStatus", "final"}
  /\ Usable(Cur, cmd.on)
  /\ Commit(IF cmd.pc = "thenStatus"
              THEN request(Cur, "client.getStatus", NoArg, "final")
              ELSE succeed(Cur))

\* The launch is answered with a session handle.
LaunchResolve ==
  /\ cmd.pc = "launch"
  /\ Usable(Cur, cmd.on)
  /\ LET m == launchThen(Cur, cmd.command)
     IN  WithinBounds(m) /\ Commit(m)

\* The session answers the media status query of a media command.
MediaStatusResolve(mask) ==
  /\ cmd.pc = "mediaStatus"
  /\ Commit(mediaThen([Cur EXCEPT !.cmd.media = mask], cmd.command, mask))

\* The session answers the last request of the command.
SessionResolve ==
  /\ cmd.pc = "sessionFinal"
  /\ Commit(succeed(Cur))

\* The request in flight fails.
RequestReject ==
  /\ cmd.pc \in {"thenStatus", "final", "launch", "mediaStatus", "sessionFinal"}
  /\ Commit(errorHandler(Cur, "rejected"))

CmdSenders == {"s1"}

\* One sender and its commands, over one connection: the sender registers,
\* the handle connects, reports status, loses the connection; sessions are
\* joined, launched and closed while a command is followed.
NextCmd ==
  \/ \E id \in CmdSenders : Register(id)
  \/ \E id \in CmdSenders : Deregister(id)
  \/ \E h \in Clients : ConnectResolve(h)
  \/ \E h \in Clients, snapshot \in ObservedSnapshots : StatusResolve(h, snapshot)
  \/ \E h \in Clients, snapshot \in ObservedSnapshots : StatusEvent(h, snapshot)
  \/ \E h \in Clients : CloseEvent(h)
  \/ \E j \in pendingJoins : JoinResolve(j)
  \/ \E r \in Receivers : ReceiverClose(r)
  \/ \E id \in CmdSenders, payload \in Payloads : Input(id, payload)
  \/ RequestResolve
  \/ LaunchResolve
  \/ \E mask \in Masks : MediaStatusResolve(mask)
  \/ SessionResolve
  \/ RequestReject

SpecCmd == Init /\ [][NextCmd]_vars

\* The join protocol over every snapshot the device can report: senders
\* register, the handle connects and reports status, joins complete and
\* sessions close.
NextJoin ==
  \/ \E id \in Senders : Register(id)
  \/ \E h \in Clients : ConnectResolve(h)
  \/ \E h \in Clients, snapshot \in Snapshots : StatusResolve(h, snapshot)
  \/ \E h \in Clients, snapshot \in Snapshots : StatusEvent(h, snapshot)
  \/ \E j \in pendingJoins : JoinResolve(j)
  \/ \E r \in Receivers : ReceiverClose(r)

SpecJoin == Init /\ [][NextJoin]_vars

\* ------------------------------------------------------------ claims

\* Nothing is left to run: no timer, no promise that can still settle, and
\* every close() has been followed by the handle's close event.
Settled ==
  /\ timers = {}
  /\ pendingJoins = {}
  /\ \A h \in Clients :
       /\ (transport[h].connectPending => ~transport[h].closeArmed)
       /\ transport[h].statusQuery = 0
       /\ (transport[h].closeCalls > 0 => ~transport[h].closeArmed)

\* C1: once everything pending has run, the transport is connected iff the
\* registered-sender set is non-empty and closing is false; with no sender
\* registered no handle is held.
C1_SettledConnectedIffRegistered ==
  Settled =>
    /\ (connected /\ client # NoClient) <=> (registeredNodes # {} /\ ~closing)
    /\ registeredNodes = {} => (client = NoClient /\ ~connecting)

\* The step is Deregister(id) of the last registered sender.
LastDeregisterStep(id) ==
  /\ lifecycle[id] = "open"
  /\ lifecycle'[id] = "closed"
  /\ registeredNodes = {id}

C3_ClosingNeverConnects ==
  closing => (~connected /\ ~connecting /\ client = NoClient)

\* The step ran the error or close handler of some handle.
LostStep ==
  \E h \in Clients :
    \/ transport[h].closeArmed /\ ~transport'[h].closeArmed
    \/ transport[h].errorArmed /\ ~transport'[h].errorArmed

\* What C4 says holds when the handler completes.
C4_Post ==
  /\ client' = NoClient /\ ~connected' /\ ~connecting'
  /\ platformStatus' = NullStatus
  /\ \A id \in registeredNodes' :
       /\ adapter'[id] = "null" /\ receiver'[id] = NoReceiver
       /\ nodeStatus'[id] = "disconnected"
  /\ reconnectTimeOut' \in timers'
  /\ timers' \ timers = {reconnectTimeOut'}
  /\ timers \ timers' \subseteq {reconnectTimeOut}
  /\ reconnectTimeOut \notin timers'

\* The step is the setTimeout callback of timer t.
TimerStep(t) == t \in timers /\ t \notin timers' /\ timersCreated' = timersCreated

\* The step started a connect attempt on a new handle.
StartsAttempt ==
  /\ connecting' /\ ~connected'
  /\ clientsCreated' = clientsCreated + 1
  /\ client' = clientsCreated'
  /\ transport'[client'].connectPending

\* C4 as claimed: after an unexpected close or error with senders registered
\* and closing false the handle is released, the status cleared, every
\* registered sender detached and told "disconnected", one reconnect
\* scheduled; and a reconnect that fires starts a new connect attempt.
C4_LostThenReconnect ==
  [][ /\ (LostStep /\ registeredNodes # {} /\ ~closing) => C4_Post
      /\ \A t \in Timers : TimerStep(t) => StartsAttempt ]_vars

\* C4 as amended: the reconnect that fires starts a new connect attempt
\* unless the manager is connecting or connected by then, and then it
\* changes nothing but the timer.
C4_LostThenReconnectIfIdle ==
  [][ /\ (LostStep /\ registeredNodes # {} /\ ~closing) => C4_Post
      /\ \A t \in Timers : TimerStep(t) =>
           IF connected \/ connecting
             THEN UNCHANGED << connected, connecting, client, clientsCreated,
                               transport, nodeStatus, adapter, receiver >>
             ELSE StartsAttempt ]_vars

\* C4 witness: two senders were attached, the connected handle closed
\* unexpectedly, both are detached, and the one reconnect has fired and
\* started the second attempt.
C4_Witness ==
  /\ registeredNodes = Senders /\ ~closing
  /\ receiversCreated = 2 /\ receivers[1].node # receivers[2].node
  /\ transport[1].up /\ ~transport[1].closeArmed /\ transport[1].closeCalls = 1
  /\ timersCreated = 1 /\ timers = {}
  /\ \A id \in Senders : adapter[id] = "null" /\ receiver[id] = NoReceiver
  /\ connecting /\ client = 2 /\ transport[2].connectPending

\* ---- claims about commands (checked under SpecCmd)

\* The step is Input: a new message starts to be handled.
InputStep == cmd.pc \in {"idle", "done"} /\ cmd' # cmd

Called(fn) == \E i \in 1..Len(cmd.calls) : cmd.calls[i].fn = fn

MediaOps == {"receiver.pause", "receiver.play", "receiver.seek", "receiver.stop"}

NoMediaOp == \A i \in 1..Len(cmd.calls) : cmd.calls[i].fn \notin MediaOps

GatedMedia == {"PAUSE", "PLAY", "SEEK", "STOP"}

KnownApps == {"DefaultMediaReceiver", "YouTube"}

\* The sender was attached when the message was dispatched: its first call
\* went to its session.
AttachedAtDispatch ==
  Len(cmd.calls) >= 1 /\
  cmd.calls[1].fn \in {"receiver.getStatus", "adapter.sendAppCommand"}

\* C5: while the manager is not connected (Connecting included) a device
\* command and a launch fail with "Not connected" before any transport call
\* and leave the sender's adapter and session as they were; and no join is
\* put to the transport unless the manager is connected.
C5_NotConnectedBeforeTransport ==
  [][ /\ ( /\ InputStep
           /\ ~connected
           /\ \/ cmd'.command.type \in platformCommands
              \/ receiver[cmd'.node] = NoReceiver
              \/ adapter[cmd'.node] = "null" ) =>
           /\ cmd'.pc = "done" /\ cmd'.result = "Not connected"
           /\ cmd'.calls = << >>
           /\ adapter' = adapter /\ receiver' = receiver
           /\ receivers' = receivers
      /\ (pendingJoins' \ pendingJoins # {} => connected) ]_vars

\* C5 witness: a PLAY put to an unattached sender while Connecting has failed
\* with "Not connected" after asking for the launch, with no transport call.
C5_Witness ==
  /\ connecting /\ ~connected
  /\ cmd.pc = "done" /\ cmd.result = "Not connected"
  /\ cmd.command.type = "PLAY" /\ Len(cmd.launches) = 1
  /\ cmd.calls = << >>
  /\ receiver[cmd.node] = NoReceiver /\ adapter[cmd.node] = "null"

ValidVolume(v) == Len(v) = 1 /\ v[1] >= 0 /\ v[1] <= 100

\* C6: on a connected manager VOLUME with 0 <= v <= 100 is accepted: setVolume
\* is called with level v/100, then the status is queried, and the command
\* succeeds with these two calls; any other or absent v fails with
\* "Malformed command" and no transport call.
C6_VolumeRange ==
  (cmd.command.type = "VOLUME" /\ cmd.pc # "idle" /\ cmd.result # "Not connected") =>
    IF ValidVolume(cmd.command.volume)
      THEN /\ cmd.result # "Malformed command"
           /\ Len(cmd.calls) >= 1
           /\ cmd.calls[1].fn = "client.setVolume"
           /\ cmd.calls[1].arg =
                [level |-> [num |-> cmd.command.volume[1], den |-> 100]]
           /\ Len(cmd.calls) >= 2 => cmd.calls[2].fn = "client.getStatus"
           /\ cmd.result = "ok" => Len(cmd.calls) = 2
      ELSE cmd.result = "Malformed command" /\ cmd.calls = << >>

\* C7: PAUSE, PLAY, SEEK or STOP on an attached sender whose session reports
\* null media status completes with success and invokes no media operation.
C7_IdleSessionIsNoOpSuccess ==
  (cmd.command.type \in GatedMedia /\ cmd.media = << >>) =>
    (cmd.pc = "done" /\ cmd.result = "ok" /\ NoMediaOp)

\* C8: with a non-null media status of bitmask m, on a sender still attached:
\* PAUSE invokes pause iff bit 1 is set, SEEK invokes seek(time) iff bit 2 is
\* set and the command carries a time, PLAY invokes play, STOP invokes stop;
\* when the gate is not met nothing is invoked and the command succeeds.
C8_MediaGating ==
  ( /\ cmd.command.type \in GatedMedia
    /\ Len(cmd.media) = 1 /\ cmd.media[1] >= 0
    /\ cmd.result # "TypeError" ) =>
    LET m == cmd.media[1]
        t == cmd.command.time
        gate == CASE cmd.command.type = "PAUSE" -> BitSet(m, 1)
                  [] cmd.command.type = "SEEK" -> BitSet(m, 2) /\ Len(t) = 1
                  [] OTHER -> TRUE
        op == CASE cmd.command.type = "PAUSE" -> "receiver.pause"
                [] cmd.command.type = "SEEK" -> "receiver.seek"
                [] cmd.command.type = "PLAY" -> "receiver.play"
                [] OTHER -> "receiver.stop"
    IN  IF gate
          THEN /\ Called(op)
               /\ cmd.command.type = "SEEK" =>
                    \E i \in 1..Len(cmd.calls) :
                      cmd.calls[i] = [fn |-> "receiver.seek", on |-> cmd.calls[i].on,
                                      arg |-> [time |-> t[1]]]
          ELSE NoMediaOp /\ cmd.pc = "done" /\ cmd.result = "ok"

\* play was invoked on a session handle that a launch of this sender made.
PlayedOnLaunched ==
  \E i \in 1..Len(cmd.calls) :
    /\ cmd.calls[i].fn = "receiver.play"
    /\ receivers[cmd.calls[i].on].via = "launch"
    /\ receivers[cmd.calls[i].on].node = cmd.node

AdapterFor(app) ==
  IF app = "YouTube" THEN "YouTubeReceiverAdapter" ELSE "DefaultMediaReceiverAdapter"

AppIdFor(app) == IF app = "YouTube" THEN "233637DE" ELSE "CC1AD845"

C10_UnknownApplication ==
  ( /\ cmd.pc # "idle"
    /\ cmd.command.type \notin platformCommands
    /\ cmd.command.app \notin KnownApps
    /\ ~AttachedAtDispatch ) =>
    /\ cmd.pc = "done" /\ cmd.result = "UnknownApplication"
    /\ cmd.launches = << >>
    /\ cmd.calls = << >>

\* ---- claims about joins, deregistration and reconnects

Detached(id) == adapter[id] = "null" /\ receiver[id] = NoReceiver

\* C11: once a snapshot has been received and every pending join completion
\* has run, each registered sender's attachment is the join protocol's
\* outcome for the latest snapshot: detached when it lists no matching
\* session, and attached to no other session than the matching one.
C11_AttachmentFollowsLatestSnapshot ==
  (connected /\ ~platformStatus.isNull /\ pendingJoins = {}) =>
    \A id \in registeredNodes :
      LET d == JoinDecision(platformStatus, supportedApplications)
      IN  IF d.op = "unjoin"
            THEN Detached(id)
            ELSE receiver[id] # NoReceiver =>
                   receivers[receiver[id]].session = d.session.sessionId

\* The step ran the status listener or the second then of connect with this
\* snapshot.
StatusStep(snapshot) ==
  \E h \in Clients : StatusEvent(h, snapshot) \/ StatusResolve(h, snapshot)

\* Session i of the list carries the identifier of some capability.
Matches(apps, i) ==
  \E j \in 1..Len(supportedApplications) :
    supportedApplications[j].APP_ID = apps[i].appId

\* The one instruction sender id got for the snapshot in this step.
Instructed(snapshot, id) ==
  LET apps == IF snapshot.hasApps THEN snapshot.applications ELSE << >>
      caps == supportedApplications
  IN  IF \E i \in 1..Len(apps) : Matches(apps, i)
        THEN \E i \in 1..Len(apps), j \in 1..Len(caps) :
               /\ Matches(apps, i)
               /\ \A k \in 1..(i - 1) : ~Matches(apps, k)
               /\ caps[j].APP_ID = apps[i].appId
               /\ \A k \in 1..(j - 1) : caps[k].APP_ID # apps[i].appId
               /\ LET jn == [node |-> id, session |-> apps[i], app |-> caps[j]]
                  IN  /\ jn \in pendingJoins'
                      /\ \A x \in pendingJoins' \ pendingJoins :
                           x.node = id => x = jn
               /\ adapter'[id] = adapter[id] /\ receiver'[id] = receiver[id]
        ELSE /\ adapter'[id] = "null" /\ receiver'[id] = NoReceiver
             /\ \A x \in pendingJoins' \ pendingJoins : x.node # id

\* C12: in each join re-evaluation every registered sender gets exactly one
\* instruction: join with the first session of the snapshot whose
\* application identifier is that of one of its capabilities and the first
\* capability with that identifier, or unjoin when the snapshot has no such
\* session or no session list; whatever the sender is attached to.
C12_OneInstructionPerSender ==
  [][ \A snapshot \in Snapshots :
        ( /\ platformStatus' = snapshot
          /\ connected /\ Usable(Cur, client)
          /\ StatusStep(snapshot) ) =>
          \A id \in registeredNodes : Instructed(snapshot, id) ]_vars

\* C12 witness: the snapshot lists the YouTube session before the default
\* media receiver's; a sender attached to a session is being joined to the
\* YouTube session, the first that matches.
C12_Witness ==
  /\ connected /\ ~platformStatus.isNull
  /\ platformStatus.hasApps
  /\ platformStatus.applications =
       << [appId |-> YouTubeReceiver.APP_ID, sessionId |-> 2],
          [appId |-> DefaultMediaReceiver.APP_ID, sessionId |-> 1] >>
  /\ \E id \in registeredNodes :
       /\ receiver[id] # NoReceiver
       /\ receivers[receiver[id]].session = 1
       /\ pendingJoins =
            { [node |-> n,
               session |-> [appId |-> YouTubeReceiver.APP_ID, sessionId |-> 2],
               app |-> YouTubeReceiver] : n \in registeredNodes }

\* The step is the close handler of sender id: deregister and its callback.
DeregisterStep(id) == lifecycle[id] = "open" /\ lifecycle'[id] = "closed"

\* C13: deregister removes the sender and runs onComplete (the sender ends
\* closed and detached) in every manager state; it disconnects (close() on
\* the held handle, handle released, flags and status cleared) iff the set
\* became empty, the manager was connected or connecting and closing is
\* false; for a closing manager nothing else changes: no disconnect, no
\* transport call, no status broadcast.
C13_DeregisterCompletes ==
  [][ \A id \in Senders : DeregisterStep(id) =>
        /\ registeredNodes' = registeredNodes \ {id}
        /\ adapter'[id] = "null" /\ receiver'[id] = NoReceiver
        /\ \A o \in Senders \ {id} : lifecycle'[o] = lifecycle[o]
        /\ UNCHANGED << closing, timers, timersCreated, reconnectTimeOut,
                        clientsCreated, pendingJoins, receivers >>
        /\ IF ~closing /\ registeredNodes \ {id} = {} /\ (connected \/ connecting)
             THEN /\ client' = NoClient /\ ~connected' /\ ~connecting'
                  /\ platformStatus' = NullStatus
                  /\ client # NoClient
                  /\ transport' = [transport EXCEPT ![client].closeCalls = @ + 1]
             ELSE /\ UNCHANGED << connected, connecting, client, platformStatus,
                                  transport, nodeStatus >>
                  /\ \A o \in Senders \ {id} :
                       adapter'[o] = adapter[o] /\ receiver'[o] = receiver[o] ]_vars

\* C13 witness: the owner closed the connection, a reconnect scheduled
\* before that fired and started an attempt, and then the only sender was
\* deregistered: the attempt is still in progress, untouched.
C13_Witness ==
  /\ closing /\ connecting /\ client = 2
  /\ transport[2].closeCalls = 0 /\ transport[2].connectPending
  /\ registeredNodes = {}
  /\ lifecycle["s1"] = "closed" /\ lifecycle["s2"] = "new"
  /\ nodeStatus["s1"] = "connecting"
  /\ clientsCreated = 2 /\ timers = {}

\* C14: a sender whose deregistration has completed is detached, and stays
\* so whatever completes afterwards.
C14_ClosedSenderStaysDetached ==
  \A id \in Senders : lifecycle[id] = "closed" => Detached(id)

\* C15: at most one scheduled reconnect is outstanding.
C15_AtMostOneReconnect == Cardinality(timers) <= 1

\* C16: a register or deregister call that changes the size of the
\* registered set leaves no scheduled reconnect outstanding.
C16_RegistrationCancelsReconnect ==
  [][ Cardinality(registeredNodes') # Cardinality(registeredNodes) =>
        timers' = {} ]_vars

\* C17: the manager holds a handle iff it is connecting or connected, never
\* both; and it is connected only while the handle it holds is one whose
\* connect attempt has succeeded.
C17_HandleIffConnectingOrConnected ==
  /\ (client # NoClient) <=> (connecting \/ connected)
  /\ ~(connecting /\ connected)
  /\ connected => (client # NoClient /\ transport[client].up)

\* C17 witness: s1 was closed while its attempt was in progress, s2
\* registered and started the second attempt, and then the first attempt's
\* connect completed: the manager is idle again, the second handle closed,
\* a reconnect scheduled.
C17_Witness ==
  /\ lifecycle["s1"] = "closed" /\ nodeStatus["s1"] = "connecting"
  /\ registeredNodes = {"s2"} /\ ~closing
  /\ transport[1].up /\ transport[1].closeCalls = 1
  /\ transport[1].errorArmed /\ transport[1].closeArmed
  /\ transport[2].connectPending /\ transport[2].closeCalls = 1
  /\ transport[2].errorArmed /\ transport[2].closeArmed
  /\ client = NoClient /\ ~connected /\ ~connecting
  /\ timers = {1}

\* C18: between callbacks a sender's adapter and session are both null or
\* both set, and when set the adapter is the one of the session's
\* application.
C18_AdapterAndSessionTogether ==
  \A id \in Senders :
    /\ (adapter[id] = "null") <=> (receiver[id] = NoReceiver)
    /\ receiver[id] # NoReceiver =>
         /\ receivers[receiver[id]].node = id
         /\ adapter[id] = IF receivers[receiver[id]].app = YouTubeReceiver.APP_ID
                            THEN "YouTubeReceiverAdapter"
                            ELSE "DefaultMediaReceiverAdapter"

\* C18 witness: the sender was attached by a join, detached when that
\* session closed, and is attached again by the launch of a command.
C18_Witness ==
  /\ receiversCreated = 2
  /\ receivers[1].via = "join" /\ ~receivers[1].armed
  /\ receivers[2].via = "launch" /\ receivers[2].armed
  /\ receiver["s1"] = 2
  /\ adapter["s1"] = "DefaultMediaReceiverAdapter"
  /\ Len(cmd.launches) = 1

\* C19: while the manager is not connected (idle or connecting) every
\* registered sender is detached.
C19_AttachedOnlyWhileConnected ==
  ~connected => \A id \in registeredNodes : Detached(id)

\* The step ran the error or close listener of handle h.
LostStepOf(h) ==
  \/ transport[h].closeArmed /\ ~transport'[h].closeArmed
  \/ transport[h].errorArmed /\ ~transport'[h].errorArmed

\* C20: an error or close event of a handle the manager has released leaves
\* the handle of a later attempt alone: that handle stays held and is not
\* closed, the flags of its attempt stay, and no sender is detached.
C20_StaleEventLeavesNewerHandle ==
  [][ \A h \in Clients :
        (LostStepOf(h) /\ client # NoClient /\ client # h) =>
          /\ client' = client
          /\ transport'[client].closeCalls = transport[client].closeCalls
          /\ connected' = connected /\ connecting' = connecting
          /\ adapter' = adapter /\ receiver' = receiver ]_vars

\* The step ran the close listener of session handle r.
ReceiverCloseStep(r) == receivers[r].armed /\ ~receivers'[r].armed

\* C21: the close event of a session handle resets the adapter and the
\* session of its sender only when the sender is attached to that handle; a
\* sender since attached to a newer handle keeps its attachment.
C21_StaleSessionCloseKeepsAttachment ==
  [][ \A r \in Receivers : ReceiverCloseStep(r) =>
        LET id == receivers[r].node
        IN  IF receiver[id] = r
              THEN adapter'[id] = "null" /\ receiver'[id] = NoReceiver
              ELSE adapter'[id] = adapter[id] /\ receiver'[id] = receiver[id] ]_vars

====
